---- MODULE Spec2Model ----
(***************************************************************************)
(* numify: conversion of numbers to abbreviated, locale-aware strings.     *)
(*                                                                         *)
(* The library is two pure functions, numify and formatNumber, over a      *)
(* static locale table (plus the older one-argument numify of              *)
(* src/index.ts).  A caller picks a number, then calls one of them with    *)
(* some options; the state records the call and the string it returned.    *)
(*                                                                         *)
(* Strings are sequences of one-character strings.  A number is the        *)
(* decimal that Number::toString prints for it: a sign, the digits s       *)
(* (first and last digit nonzero, k = Len(s)) and the exponent n, with     *)
(* value 0.s * 10^n; this is the (s, k, n) of ECMAScript's Number::toString*)
(* and identifies the double as long as k <= 15.  Thresholds are powers of *)
(* ten and are held by their exponent (1e7 is 7).  Arithmetic is done on   *)
(* the decimal; where the double decides (toFixed at an exact decimal tie) *)
(* its binary expansion is computed.                                       *)
(***************************************************************************)
EXTENDS Integers, Sequences, FiniteSets, TLC

\* pc: whether the caller has made its call; op: the function it called;
\* num, formatType, precise, style: the arguments; value: the function's
\* local num (numify assigns the sanitized number to it); result: the
\* string returned
VARIABLES pc, op, num, formatType, precise, style, value, result

vars == <<pc, op, num, formatType, precise, style, value, result>>

----------------------------------------------------------------------------
(* Bounds of the checked input space *)

\* most significant digits of a generated input
MaxDigits == 4
\* generated inputs have decimal exponent n in -MaxNegExp .. MaxExp
MaxNegExp == 7
MaxExp == 22
\* digits the generated inputs are written with
DigitAlphabet == {0, 5, 9}

----------------------------------------------------------------------------
(* Characters and digit sequences *)

DigitChars == <<"0", "1", "2", "3", "4", "5", "6", "7", "8", "9">>

DigitChar(d) == DigitChars[d + 1]

IsDigitChar(c) == c \in {"0", "1", "2", "3", "4", "5", "6", "7", "8", "9"}

CharDigit(c) == CHOOSE d \in 0..9 : DigitChars[d + 1] = c

\* \w of a regular expression
IsWordChar(c) ==
    \/ IsDigitChar(c)
    \/ c \in {"a", "b", "c", "d", "e", "f", "g", "h", "i", "j", "k", "l", "m",
              "n", "o", "p", "q", "r", "s", "t", "u", "v", "w", "x", "y", "z",
              "A", "B", "C", "D", "E", "F", "G", "H", "I", "J", "K", "L", "M",
              "N", "O", "P", "Q", "R", "S", "T", "U", "V", "W", "X", "Y", "Z",
              "_"}

DigitsText(ds) == [i \in 1..Len(ds) |-> DigitChar(ds[i])]

TextDigits(t) == [i \in 1..Len(t) |-> CharDigit(t[i])]

Zeros(j) == [i \in 1..j |-> 0]

Max(a, b) == IF a >= b THEN a ELSE b

\* decimal digits of a natural number below 1000 (an exponent)
NatDigits(a) ==
    IF a < 10 THEN <<a>>
    ELSE IF a < 100 THEN <<a \div 10, a % 10>>
    ELSE <<a \div 100, (a \div 10) % 10, a % 10>>

\* value of a digit sequence of at most 9 digits
RECURSIVE DigitsValue(_)
DigitsValue(ds) ==
    IF ds = <<>> THEN 0
    ELSE 10 * DigitsValue(SubSeq(ds, 1, Len(ds) - 1)) + ds[Len(ds)]

\* ds without its leading zeros
RECURSIVE StripLeading(_)
StripLeading(ds) ==
    IF ds # <<>> /\ ds[1] = 0 THEN StripLeading(Tail(ds)) ELSE ds

\* ds without its trailing zeros
RECURSIVE StripTrailing(_)
StripTrailing(ds) ==
    IF ds # <<>> /\ ds[Len(ds)] = 0
    THEN StripTrailing(SubSeq(ds, 1, Len(ds) - 1))
    ELSE ds

\* ds + 1
Increment(ds) ==
    LET len == Len(ds)
        nines == IF \A i \in 1..len : ds[i] = 9 THEN len
                 ELSE len - (CHOOSE i \in 1..len :
                                /\ ds[i] # 9
                                /\ \A j \in (i + 1)..len : ds[j] = 9)
    IN  IF nines = len THEN <<1>> \o Zeros(len)
        ELSE SubSeq(ds, 1, len - nines - 1)
               \o <<ds[len - nines] + 1>> \o Zeros(nines)

----------------------------------------------------------------------------
(* Numbers *)

Zero == [kind |-> "finite", neg |-> FALSE, s |-> <<>>, n |-> 0]

NaN == [kind |-> "nan", neg |-> FALSE, s |-> <<>>, n |-> 0]

Infinity(negative) == [kind |-> "inf", neg |-> negative, s |-> <<>>, n |-> 0]

Finite(negative, ds, e) == [kind |-> "finite", neg |-> negative, s |-> ds, n |-> e]

IsZero(x) == x.kind = "finite" /\ x.s = <<>>

\* x < 10^e (false of NaN)
LessThanPow10(x, e) ==
    \/ x.kind = "inf" /\ x.neg
    \/ x.kind = "finite" /\ (x.neg \/ IsZero(x) \/ x.n <= e)

\* x >= 10^e (false of NaN)
AtLeastPow10(x, e) ==
    \/ x.kind = "inf" /\ ~x.neg
    \/ x.kind = "finite" /\ ~x.neg /\ ~IsZero(x) /\ x.n >= e + 1

\* x / 10^e
DivPow10(x, e) ==
    IF x.kind = "finite" /\ ~IsZero(x) THEN [x EXCEPT !.n = x.n - e] ELSE x

\* Number.prototype.toString of a positive finite number
PositiveToString(s, n) ==
    LET k == Len(s)
        e == n - 1
        exponent == <<"e", IF e < 0 THEN "-" ELSE "+">>
                      \o DigitsText(NatDigits(IF e < 0 THEN -e ELSE e))
    IN  IF k <= n /\ n <= 21 THEN DigitsText(s \o Zeros(n - k))
        ELSE IF 0 < n /\ n <= 21
        THEN DigitsText(SubSeq(s, 1, n)) \o <<".">> \o DigitsText(SubSeq(s, n + 1, k))
        ELSE IF -6 < n /\ n <= 0
        THEN <<"0", ".">> \o DigitsText(Zeros(-n) \o s)
        ELSE IF k = 1 THEN DigitsText(s) \o exponent
        ELSE <<DigitChar(s[1]), ".">> \o DigitsText(Tail(s)) \o exponent

\* Number.prototype.toString
NumberToString(x) ==
    IF x.kind = "nan" THEN <<"N", "a", "N">>
    ELSE IF x.kind = "inf"
    THEN (IF x.neg THEN <<"-">> ELSE <<>>)
           \o <<"I", "n", "f", "i", "n", "i", "t", "y">>
    ELSE IF IsZero(x) THEN <<"0">>
    ELSE (IF x.neg THEN <<"-">> ELSE <<>>) \o PositiveToString(x.s, x.n)

\* Number(text) for a text of digits and dots
StringToNumber(t) ==
    LET dots == {i \in 1..Len(t) : t[i] = "."}
        dot == IF dots = {} THEN Len(t) + 1 ELSE CHOOSE i \in dots : TRUE
        ip == TextDigits(SubSeq(t, 1, dot - 1))
        fp == TextDigits(SubSeq(t, dot + 1, Len(t)))
        all == StripLeading(ip \o fp)
        lead == Len(ip) + Len(fp) - Len(all)
    IN  IF t = <<>> THEN Zero
        ELSE IF Cardinality(dots) > 1 \/ t = <<".">> THEN NaN
        ELSE IF all = <<>> THEN Zero
        ELSE Finite(FALSE, StripTrailing(all), Len(ip) - lead)

\* whether toFixed(2) rounds up the double nearest to m / 1000, m ending in 5:
\* with 2^l <= m / 1000 < 2^(l + 1) the double is m * 2^(49 - l) / 125 rounded
\* to an integer, and the part rounded away is r / 25
TieRoundsUp(m) ==
    LET l == CHOOSE j \in -8..20 :
                 IF j >= 0
                 THEN 1000 * 2^j <= m /\ m < 1000 * 2^(j + 1)
                 ELSE m < 1000 /\ 1000 <= m * 2^(-j) /\ m * 2^(-j) < 2000
        r == (((m \div 5) % 25) * ((2^((49 - l) % 20)) % 25)) % 25
    IN  r = 0 \/ r >= 13

\* Number.prototype.toFixed(2) of a number that is not negative
ToFixed2(x) ==
    LET s == x.s
        k == Len(s)
        D(i) == IF 1 <= i /\ i <= k THEN s[i] ELSE 0
        ip == x.n + 2
        whole == [i \in 1..Max(ip, 0) |-> D(i)]
        next == D(ip + 1)
        more == \E i \in 1..k : i > ip + 1 /\ s[i] # 0
        up == \/ next > 5
              \/ next = 5 /\ more
              \/ next = 5 /\ ~more /\ TieRoundsUp(DigitsValue(s))
        n100 == IF up THEN Increment(whole) ELSE whole
        padded == Zeros(Max(3 - Len(n100), 0)) \o n100
        len == Len(padded)
    IN  IF x.kind # "finite" \/ x.n > 21 THEN NumberToString(x)
        ELSE IF IsZero(x) THEN <<"0", ".", "0", "0">>
        ELSE DigitsText(SubSeq(padded, 1, len - 2)) \o <<".">>
               \o DigitsText(SubSeq(padded, len - 1, len))

----------------------------------------------------------------------------
(* Text helpers and the regular expressions of the source *)

\* the value undefined (an absent option, a property an object does not have)
Undefined == "<undefined>"

\* the characters of the words the library writes
Chars(w) ==
    CASE w = "k" -> <<"k">>
      [] w = "M" -> <<"M">>
      [] w = "B" -> <<"B">>
      [] w = "T" -> <<"T">>
      [] w = "P" -> <<"P">>
      [] w = "E" -> <<"E">>
      [] w = "K" -> <<"K">>
      [] w = "L" -> <<"L">>
      [] w = "Cr" -> <<"C", "r">>
      [] w = "thousand" -> <<"t", "h", "o", "u", "s", "a", "n", "d">>
      [] w = "million" -> <<"m", "i", "l", "l", "i", "o", "n">>
      [] w = "billion" -> <<"b", "i", "l", "l", "i", "o", "n">>
      [] w = "trillion" -> <<"t", "r", "i", "l", "l", "i", "o", "n">>
      [] w = "quadrillion" -> <<"q", "u", "a", "d", "r", "i", "l", "l", "i", "o", "n">>
      [] w = "quintillion" -> <<"q", "u", "i", "n", "t", "i", "l", "l", "i", "o", "n">>
      [] w = "crore" -> <<"c", "r", "o", "r", "e">>
      [] w = "lakh" -> <<"l", "a", "k", "h">>
      [] w = Undefined -> <<"u", "n", "d", "e", "f", "i", "n", "e", "d">>
      [] OTHER -> <<w>>

\* num.toString().replace(/[^0-9.]/g, "")
Sanitize(t) == SelectSeq(t, LAMBDA c : IsDigitChar(c) \/ c = ".")

\* Mutant of TrimZeros: text.replace(/\.0+$/, ""), without the second
\* alternative: a single trailing zero stays
TrimZerosWholeOnly(t) ==
    LET starts == {i \in 1..(Len(t) - 1) :
                      t[i] = "." /\ \A j \in (i + 1)..Len(t) : t[j] = "0"}
    IN  IF starts = {} THEN t
        ELSE SubSeq(t, 1, (CHOOSE i \in starts : TRUE) - 1)

\* text.replace(/\.0+$|(\.[0-9]*[1-9])0+$/, "$1"): the leftmost match; at a
\* dot the first alternative is a run of zeros up to the end, the second is
\* digits up to a digit 1-9 (the capture) and then zeros up to the end
TrimZeros(t) ==
    LET len == Len(t)
        Alt1(i) == /\ t[i] = "."
                   /\ i < len
                   /\ \A j \in (i + 1)..len : t[j] = "0"
        Capture(i) == {c \in (i + 1)..(len - 1) :
                          /\ \A j \in (i + 1)..c : IsDigitChar(t[j])
                          /\ t[c] # "0"
                          /\ \A j \in (c + 1)..len : t[j] = "0"}
        Alt2(i) == t[i] = "." /\ Capture(i) # {}
        starts == {i \in 1..len : Alt1(i) \/ Alt2(i)}
        first == CHOOSE i \in starts : \A j \in starts : i <= j
    IN  IF starts = {} THEN t
        ELSE IF Alt1(first) THEN SubSeq(t, 1, first - 1)
        ELSE SubSeq(t, 1, CHOOSE c \in Capture(first) : TRUE)

\* text.replace(c, replacement) for a one-character pattern c: the first c
ReplaceFirst(t, c, replacement) ==
    LET at == {i \in 1..Len(t) : t[i] = c}
        first == CHOOSE i \in at : \A j \in at : i <= j
    IN  IF at = {} THEN t
        ELSE SubSeq(t, 1, first - 1) \o replacement \o SubSeq(t, first + 1, Len(t))

\* \B after the first p characters of t
NotWordBoundary(t, p) ==
    LET before == p >= 1 /\ IsWordChar(t[p])
        after == p < Len(t) /\ IsWordChar(t[p + 1])
    IN  before = after

\* Mutant of GroupLookahead: (?=(\d{3})+), without the (?!\d) that ends the
\* run of digits
GroupLookaheadOpenEnded(t, p) ==
    LET run == Cardinality({i \in (p + 1)..Len(t) :
                               \A j \in (p + 1)..i : IsDigitChar(t[j])})
    IN  run >= 3

\* (?=(\d{3})+(?!\d)) after the first p characters of t: the digits that
\* follow are a positive multiple of three
GroupLookahead(t, p) ==
    LET run == Cardinality({i \in (p + 1)..Len(t) :
                               \A j \in (p + 1)..i : IsDigitChar(t[j])})
    IN  run >= 3 /\ run % 3 = 0

\* text.replace(/\B(?=(\d{3})+(?!\d))/g, separator)
RECURSIVE InsertFrom(_, _, _)
InsertFrom(t, p, separator) ==
    LET here == IF NotWordBoundary(t, p) /\ GroupLookahead(t, p)
                THEN separator ELSE <<>>
    IN  IF p >= Len(t) THEN here
        ELSE here \o <<t[p + 1]>> \o InsertFrom(t, p + 1, separator)

GroupThousands(t, separator) == InsertFrom(t, 0, separator)

\* text.split('.')
RECURSIVE Split(_)
Split(t) ==
    LET at == {i \in 1..Len(t) : t[i] = "."}
        first == CHOOSE i \in at : \A j \in at : i <= j
    IN  IF at = {} THEN <<t>>
        ELSE <<SubSeq(t, 1, first - 1)>> \o Split(SubSeq(t, first + 1, Len(t)))

\* parts.join(separator)
RECURSIVE Join(_, _)
Join(parts, separator) ==
    IF Len(parts) = 1 THEN parts[1]
    ELSE parts[1] \o separator \o Join(Tail(parts), separator)

----------------------------------------------------------------------------
(* The locale table *)

LocaleCodes == {"en", "de", "fr", "es", "in", "it", "ch", "se"}

FORMAT_LOCALES ==
    [code \in LocaleCodes |->
        CASE code = "en" -> [decimal |-> ".", thousand |-> ",", system |-> "international"]
          [] code = "de" -> [decimal |-> ",", thousand |-> ".", system |-> "international"]
          [] code = "fr" -> [decimal |-> ",", thousand |-> " ", system |-> "international"]
          [] code = "es" -> [decimal |-> ",", thousand |-> ".", system |-> "international"]
          [] code = "in" -> [decimal |-> ".", thousand |-> ",", system |-> "indian"]
          [] code = "it" -> [decimal |-> ",", thousand |-> ".", system |-> "international"]
          [] code = "ch" -> [decimal |-> ".", thousand |-> "'", system |-> "international"]
          [] code = "se" -> [decimal |-> ",", thousand |-> " ", system |-> "international"]]

\* FORMAT_LOCALES is an object literal: a key that is not its own is looked
\* up in Object.prototype
ObjectPrototypeKeys ==
    {"constructor", "toString", "toLocaleString", "valueOf", "hasOwnProperty",
     "isPrototypeOf", "propertyIsEnumerable", "__proto__"}

\* what an inherited member holds for decimal, thousand and system
InheritedMember ==
    [decimal |-> Undefined, thousand |-> Undefined, system |-> Undefined]

\* FORMAT_LOCALES[format] || FORMAT_LOCALES['en']
LocaleLookup(format) ==
    IF format \in LocaleCodes THEN FORMAT_LOCALES[format]
    ELSE IF format \in ObjectPrototypeKeys THEN InheritedMember
    ELSE FORMAT_LOCALES["en"]

getFormat(format) ==
    IF format = Undefined \/ format = "" THEN FORMAT_LOCALES["en"]
    ELSE IF format = "international" \/ format = "indian"
    THEN [decimal |-> ".", thousand |-> ",", system |-> format]
    ELSE LocaleLookup(format)

LongUnitKeys == {"k", "M", "B", "T", "E", "P", "Cr", "L"}

LONG_UNITS ==
    [u \in LongUnitKeys |->
        CASE u = "k" -> "thousand"
          [] u = "M" -> "million"
          [] u = "B" -> "billion"
          [] u = "T" -> "trillion"
          [] u = "E" -> "quintillion"
          [] u = "P" -> "quadrillion"
          [] u = "Cr" -> "crore"
          [] u = "L" -> "lakh"]

\* LONG_UNITS[unit]
LongUnit(u) == IF u \in LongUnitKeys THEN LONG_UNITS[u] ELSE Undefined

----------------------------------------------------------------------------
(* numify and formatNumber *)

\* Mutant of IndianUnits: the crore threshold one power of ten too low
IndianUnitsCroreAtMillion ==
    <<[exp |-> 6, s |-> "Cr"], [exp |-> 5, s |-> "L"], [exp |-> 3, s |-> "K"]>>

IndianUnits ==
    <<[exp |-> 7, s |-> "Cr"], [exp |-> 5, s |-> "L"], [exp |-> 3, s |-> "K"]>>

InternationalUnits ==
    <<[exp |-> 18, s |-> "E"], [exp |-> 15, s |-> "P"], [exp |-> 12, s |-> "T"],
      [exp |-> 9, s |-> "B"], [exp |-> 6, s |-> "M"], [exp |-> 3, s |-> "k"]>>

Units(system) == IF system = "indian" THEN IndianUnits ELSE InternationalUnits

\* Mutant of Sanitized: the number as it is, nothing removed
SanitizedNothing(x) == x

\* Number(num.toString().replace(/[^0-9.]/g, ""))
Sanitized(x) == StringToNumber(Sanitize(NumberToString(x)))

\* Mutant of FindUnit: the last unit that fits (the smallest threshold), not
\* the first
FindUnitLast(units, v) ==
    LET hits == {i \in 1..Len(units) : AtLeastPow10(v, units[i].exp)}
    IN  IF hits = {} THEN 0 ELSE CHOOSE i \in hits : \A j \in hits : i >= j

\* units.find(([value]) => num >= value): the index of the first such unit,
\* 0 when there is none
FindUnit(units, v) ==
    LET hits == {i \in 1..Len(units) : AtLeastPow10(v, units[i].exp)}
    IN  IF hits = {} THEN 0 ELSE CHOOSE i \in hits : \A j \in hits : i <= j

\* (num / unit[0]).toFixed(2).replace(/\.0+$|(\.[0-9]*[1-9])0+$/, "$1")
ScaledText(v, unit) == TrimZeros(ToFixed2(DivPow10(v, unit.exp)))

\* style === 'long' ? ` ${LONG_UNITS[unit[1]]}` : unit[1]
Suffix(unit, styleOpt) ==
    IF styleOpt = "long" THEN <<" ">> \o Chars(LongUnit(unit.s)) ELSE Chars(unit.s)

\* Mutant of numify: precise is tested before the threshold, so that it also
\* changes the values of 1000 and more
numifyPreciseFirst(x, formatTypeOpt, preciseOpt, styleOpt) ==
    LET v == Sanitized(x)
        format == getFormat(IF formatTypeOpt = Undefined THEN "en" ELSE formatTypeOpt)
        units == Units(format.system)
        found == FindUnit(units, v)
    IN  IF preciseOpt
        THEN ReplaceFirst(ToFixed2(v), ".", Chars(format.decimal))
        ELSE IF LessThanPow10(v, 3) \/ found = 0 THEN NumberToString(v)
        ELSE ReplaceFirst(ScaledText(v, units[found]), ".", Chars(format.decimal))
               \o Suffix(units[found], styleOpt)

numify(x, formatTypeOpt, preciseOpt, styleOpt) ==
    LET v == Sanitized(x)
        format == getFormat(IF formatTypeOpt = Undefined THEN "en" ELSE formatTypeOpt)
        units == Units(format.system)
        found == FindUnit(units, v)
    IN  IF LessThanPow10(v, 3)
        THEN IF preciseOpt
             THEN ReplaceFirst(ToFixed2(v), ".", Chars(format.decimal))
             ELSE NumberToString(v)
        ELSE IF found = 0 THEN NumberToString(v)
        ELSE ReplaceFirst(ScaledText(v, units[found]), ".", Chars(format.decimal))
               \o Suffix(units[found], styleOpt)

formatNumber(x, formatTypeOpt) ==
    LET format == getFormat(IF formatTypeOpt = Undefined THEN "en" ELSE formatTypeOpt)
        parts == Split(NumberToString(x))
        grouped == <<GroupThousands(parts[1], Chars(format.thousand))>> \o Tail(parts)
    IN  IF Len(grouped) > 1 THEN Join(grouped, Chars(format.decimal))
        ELSE grouped[1]

\* the units of src/index.ts, in ascending order
si ==
    <<[exp |-> 3, s |-> "k"], [exp |-> 6, s |-> "M"], [exp |-> 9, s |-> "B"],
      [exp |-> 12, s |-> "T"], [exp |-> 15, s |-> "P"], [exp |-> 18, s |-> "E"]>>

\* for (index = si.length - 1; index > 0; index--) if (num >= si[index].v) break;
LoopIndex(v) ==
    LET hits == {i \in 2..Len(si) : AtLeastPow10(v, si[i].exp)}
    IN  IF hits = {} THEN 1 ELSE CHOOSE i \in hits : \A j \in hits : i >= j

\* numify of src/index.ts; below 1000 it returns the number, held here as the
\* text the number prints as
numifyIndex(x) ==
    LET v == Sanitized(x)
        unit == si[LoopIndex(v)]
    IN  IF LessThanPow10(v, 3) THEN NumberToString(v)
        ELSE ScaledText(v, unit) \o Chars(unit.s)

----------------------------------------------------------------------------
(* The caller *)

DigitStrings ==
    UNION {{d \in [1..k -> DigitAlphabet] : d[1] # 0 /\ d[k] # 0} : k \in 1..MaxDigits}

\* the numbers the README, the documentation comments and the test call with:
\* 1000, 1234, 1234567.89, 23878437, 300000000, 9742387.54, 2398088942047.54
ExampleNumbers ==
    {Finite(FALSE, <<1>>, 4),
     Finite(FALSE, <<1, 2, 3, 4>>, 4),
     Finite(FALSE, <<1, 2, 3, 4, 5, 6, 7, 8, 9>>, 7),
     Finite(FALSE, <<2, 3, 8, 7, 8, 4, 3, 7>>, 8),
     Finite(FALSE, <<3>>, 9),
     Finite(FALSE, <<9, 7, 4, 2, 3, 8, 7, 5, 4>>, 7),
     Finite(FALSE, <<2, 3, 9, 8, 0, 8, 8, 9, 4, 2, 0, 4, 7, 5, 4>>, 13)}

\* the numbers just below a threshold of a ladder: 10^e - 1 (up to 15 digits,
\* which a double holds exactly)
BoundaryNumbers ==
    {Finite(FALSE, [i \in 1..e |-> 9], e) : e \in {3, 5, 6, 7, 9, 12, 15}}

\* whether the digits d followed by j zeros are an integer that a double
\* holds exactly: d * 5^j is at most 2^53. Of such numbers, and of those
\* with a fraction, the decimal arithmetic above gives what the double
\* arithmetic of the code gives; the other integers (of 5.9e20 and more,
\* with five digits or more) reach the code rounded to a double
HeldExactly(d, j) ==
    \/ j <= 13
    \/ j \in 14..21
         /\ DigitsValue(d) <= <<1475739, 295147, 59029, 11805,
                                2361, 472, 94, 18>>[j - 13]

\* generated: every sign, digit string and exponent within the bounds; an
\* integer that is written out in full (n <= 21) must be held exactly
Numbers ==
    {x \in {Finite(b, d, e) : b \in BOOLEAN, d \in DigitStrings,
                              e \in (-MaxNegExp)..MaxExp} :
        x.n > 21 \/ HeldExactly(x.s, x.n - Len(x.s))}
      \cup ExampleNumbers
      \cup BoundaryNumbers
      \cup {Zero, NaN, Infinity(FALSE), Infinity(TRUE)}

FormatTypes ==
    LocaleCodes \cup {"international", "indian", Undefined, "", "xx", "constructor"}

Styles == {"short", "long"}

Init ==
    /\ pc = "start"
    /\ op = "none"
    /\ num \in Numbers
    /\ formatType = Undefined
    /\ precise = FALSE
    /\ style = "short"
    /\ value = num
    /\ result = <<>>

CallNumify ==
    /\ pc = "start"
    /\ \E f \in FormatTypes, p \in BOOLEAN, st \in Styles :
          /\ formatType' = f
          /\ precise' = p
          /\ style' = st
          /\ result' = numify(num, f, p, st)
    /\ value' = Sanitized(num)
    /\ op' = "numify"
    /\ pc' = "done"
    /\ UNCHANGED num

CallFormatNumber ==
    /\ pc = "start"
    /\ \E f \in FormatTypes :
          /\ formatType' = f
          /\ result' = formatNumber(num, f)
    /\ op' = "formatNumber"
    /\ pc' = "done"
    /\ UNCHANGED <<num, precise, style, value>>

CallNumifyIndex ==
    /\ pc = "start"
    /\ result' = numifyIndex(num)
    /\ value' = Sanitized(num)
    /\ op' = "numifyIndex"
    /\ pc' = "done"
    /\ UNCHANGED <<num, formatType, precise, style>>

Next == CallNumify \/ CallFormatNumber \/ CallNumifyIndex

Spec == Init /\ [][Next]_vars

----------------------------------------------------------------------------
(* Properties *)

Done == pc = "done"

\* the sanitized value of the call in the current state
V == value

EndsWith(t, tail) ==
    /\ Len(t) >= Len(tail)
    /\ SubSeq(t, Len(t) - Len(tail) + 1, Len(t)) = tail

\* how many digits t starts with
LeadingDigits(t) ==
    Cardinality({i \in 1..Len(t) : \A j \in 1..i : IsDigitChar(t[j])})

\* the ladder the specification gives the call: pairs of a threshold's
\* exponent and its suffix
Ladder ==
    IF op = "numify" /\ formatType \in {"in", "indian"}
    THEN {<<7, "Cr">>, <<5, "L">>, <<3, "K">>}
    ELSE {<<18, "E">>, <<15, "P">>, <<12, "T">>, <<9, "B">>, <<6, "M">>, <<3, "k">>}

\* the unit of the largest threshold that is <= the sanitized value
LargestUnit ==
    CHOOSE u \in Ladder :
        /\ AtLeastPow10(V, u[1])
        /\ \A w \in Ladder : AtLeastPow10(V, w[1]) => w[1] <= u[1]

LongWordOf(suffix) ==
    CASE suffix = "k" -> "thousand"
      [] suffix = "K" -> "thousand"
      [] suffix = "M" -> "million"
      [] suffix = "B" -> "billion"
      [] suffix = "T" -> "trillion"
      [] suffix = "P" -> "quadrillion"
      [] suffix = "E" -> "quintillion"
      [] suffix = "L" -> "lakh"
      [] suffix = "Cr" -> "crore"

Abbreviating == Done /\ op \in {"numify", "numifyIndex"} /\ AtLeastPow10(V, 3)

C2_PlainBelowThousand ==
    (/\ Done
     /\ \/ op = "numify" /\ formatType = Undefined /\ ~precise /\ style = "short"
        \/ op = "numifyIndex"
     /\ LessThanPow10(num, 3))
        => result = NumberToString(num)

\* C3: in long style the output of a sanitized value >= 1000 ends with one
\* space and the long word of the selected unit, which every unit has
C3_LongWord ==
    (Abbreviating /\ op = "numify" /\ style = "long") =>
        /\ EndsWith(result, <<" ">> \o Chars(LongWordOf(LargestUnit[2])))
        /\ LeadingDigits(result) >= 1

\* C4: a formatType that is neither a locale code nor a system name, an empty
\* and an absent one included, gives the output that formatType 'en' gives
C4_UnknownFormatIsEnglish ==
    (Done /\ formatType \notin LocaleCodes \cup {"international", "indian"}) =>
        /\ op = "numify" => result = numify(num, "en", precise, style)
        /\ op = "formatNumber" => result = formatNumber(num, "en")

\* the digits ds in groups of three counted from the right
RECURSIVE GroupedFromRight(_, _)
GroupedFromRight(ds, separator) ==
    IF Len(ds) <= 3 THEN ds
    ELSE GroupedFromRight(SubSeq(ds, 1, Len(ds) - 3), separator)
           \o separator \o SubSeq(ds, Len(ds) - 2, Len(ds))

\* the configuration of the call in the current state
Configuration == getFormat(IF formatType = Undefined THEN "en" ELSE formatType)

\* C5: formatNumber puts the thousand separator into the integer part at the
\* digit positions that are multiples of three counted from the right, never
\* before the first digit, leaves the fractional digits as they are, joined
\* with the decimal separator, and changes no digit of the input
C5_GroupsOfThree ==
    (Done /\ op = "formatNumber") =>
        LET text == NumberToString(num)
            dots == {i \in 1..Len(text) : text[i] = "."}
            dot == IF dots = {} THEN Len(text) + 1 ELSE CHOOSE i \in dots : TRUE
            whole == SubSeq(text, 1, dot - 1)
            sign == IF whole[1] = "-" THEN <<"-">> ELSE <<>>
            unsigned == SubSeq(whole, Len(sign) + 1, Len(whole))
            run == LeadingDigits(unsigned)
            expected ==
                sign
                  \o GroupedFromRight(SubSeq(unsigned, 1, run),
                                      Chars(Configuration.thousand))
                  \o SubSeq(unsigned, run + 1, Len(unsigned))
                  \o (IF dots = {} THEN <<>>
                      ELSE Chars(Configuration.decimal)
                             \o SubSeq(text, dot + 1, Len(text)))
        IN  /\ result = expected
            /\ SelectSeq(result, IsDigitChar) = SelectSeq(text, IsDigitChar)

C5_Witness ==
    /\ Done /\ op = "formatNumber" /\ formatType = "de"
    /\ result = <<"1", ".", "2", "3", "4", ".", "5", "6", "7", ",", "8", "9">>

ReadmeNumber == Finite(FALSE, <<2, 3, 8, 7, 8, 4, 3, 7>>, 8)

ReadmeCall ==
    /\ Done /\ op = "numify" /\ num = ReadmeNumber
    /\ formatType = "in" /\ precise /\ style = "short"

Negated(x) ==
    IF x.kind = "nan" \/ IsZero(x) THEN x ELSE [x EXCEPT !.neg = ~x.neg]

\* C9: numify returns for -v what it returns for v
C9_SignIsLost ==
    Done =>
        /\ op = "numify" =>
              result = numify(Negated(num), formatType, precise, style)
        /\ op = "numifyIndex" => result = numifyIndex(Negated(num))

C9_Witness ==
    /\ Done /\ op = "numify" /\ num.neg /\ num.kind = "finite"
    /\ result = <<"5", ".", "5", "k">>

\* C10: for a sanitized value >= 1000 and below the highest threshold of its
\* ladder the numeric part of the output is at least 1 and below the ratio
\* of the next threshold to the selected one: below 100 for the indian K and
\* L, below 1000 otherwise
C10_BelowNextUnit ==
    (Abbreviating /\ ~AtLeastPow10(V, IF <<7, "Cr">> \in Ladder THEN 7 ELSE 18)) =>
        /\ LeadingDigits(result) >= 1
        /\ result[1] # "0"
        /\ LeadingDigits(result) <= (IF LargestUnit[2] \in {"K", "L"} THEN 2 ELSE 3)

====
